---- MODULE Spec2Model ----
(***************************************************************************)
(* Model of src/schemas.py: five Pydantic models (User, Product, Author,   *)
(* Book, Submission) and the validation their field declarations define.   *)
(* A candidate record is assembled field by field, validated against the   *)
(* model's declarations, and (for Book) the resulting instance may be kept *)
(* and its genres list appended to.                                        *)
(***************************************************************************)
EXTENDS Integers, Sequences, FiniteSets, TLC

(* ------------------------------ bounds --------------------------------- *)

\* numeric and length inputs are drawn from b-Slack .. b+Slack around each declared bound b
Slack == 1
\* how many fields of a candidate may be changed after it is started from a base record
MaxOverrides == 2
\* how many Book instances are kept alive at once
MaxBooks == 2
\* how many genres may be appended, in total, to the kept Book instances
MaxAppends == 1

(* --------------------------- declared limits --------------------------- *)

AgeMin == 0
AgeMax == 120
ProductPriceMin == 0
PagesMin == 1
BookPriceMin == 0
SynopsisMinLength == 50
WordCountMin == 1000

(* ------------------------------- values -------------------------------- *)

\* a field that is not supplied at all
Absent == [k |-> "absent"]
\* an explicit None / JSON null
Null == [k |-> "null"]
\* a value of a type no field accepts (a dict)
Obj == [k |-> "obj"]
Str(s) == [k |-> "str", v |-> s]
Num(n) == [k |-> "num", v |-> n]
Bool(b) == [k |-> "bool", v |-> b]
\* a list literal supplied by the caller
List(s) == [k |-> "list", v |-> s]
\* a list object owned by a validated instance
Ref(i) == [k |-> "ref", v |-> i]

\* a string of n characters
Rep(n) == [i \in 1..n |-> "x"]

(* ------------------------- field declarations -------------------------- *)

\* Field(...): the default is the Ellipsis, i.e. the field is required
Required == [kind |-> "required"]
\* Field(v, ...)
Default(v) == [kind |-> "value", v |-> v]
\* Field(default_factory=list, ...)
DefaultFactory == [kind |-> "factory"]

Field(name, type, nullable, default, ge, le, minLength) ==
    [name |-> name, type |-> type, nullable |-> nullable, default |-> default,
     ge |-> ge, le |-> le, min_length |-> minLength]

UserName == <<"U", "s", "e", "r">>
ProductName == <<"P", "r", "o", "d", "u", "c", "t">>
AuthorName == <<"A", "u", "t", "h", "o", "r">>
BookName == <<"B", "o", "o", "k">>
SubmissionName == <<"S", "u", "b", "m", "i", "s", "s", "i", "o", "n">>
BlogPostName == <<"B", "l", "o", "g", "P", "o", "s", "t">>

User ==
    [name |-> UserName,
     fields |-> <<
        Field("name", "str", FALSE, Required, {}, {}, {}),
        Field("email", "email", FALSE, Required, {}, {}, {}),
        Field("address", "str", TRUE, Default(Null), {}, {}, {}),
        Field("age", "int", TRUE, Default(Null), {AgeMin}, {AgeMax}, {}),
        Field("is_active", "bool", FALSE, Default(Bool(TRUE)), {}, {}, {}) >>]

Product ==
    [name |-> ProductName,
     fields |-> <<
        Field("title", "str", FALSE, Required, {}, {}, {}),
        Field("description", "str", TRUE, Default(Null), {}, {}, {}),
        Field("price", "float", FALSE, Required, {ProductPriceMin}, {}, {}),
        Field("category", "str", FALSE, Required, {}, {}, {}),
        Field("in_stock", "bool", FALSE, Default(Bool(TRUE)), {}, {}, {}) >>]

Author ==
    [name |-> AuthorName,
     fields |-> <<
        Field("name", "str", FALSE, Required, {}, {}, {}),
        Field("bio", "str", TRUE, Default(Null), {}, {}, {}),
        Field("website", "url", TRUE, Default(Null), {}, {}, {}),
        Field("avatar_url", "url", TRUE, Default(Null), {}, {}, {}) >>]

Book ==
    [name |-> BookName,
     fields |-> <<
        Field("title", "str", FALSE, Required, {}, {}, {}),
        Field("subtitle", "str", TRUE, Default(Null), {}, {}, {}),
        Field("description", "str", TRUE, Default(Null), {}, {}, {}),
        Field("author", "str", FALSE, Required, {}, {}, {}),
        Field("genres", "list_str", FALSE, DefaultFactory, {}, {}, {}),
        Field("cover_url", "url", TRUE, Default(Null), {}, {}, {}),
        Field("pages", "int", TRUE, Default(Null), {PagesMin}, {}, {}),
        Field("price", "float", TRUE, Default(Null), {BookPriceMin}, {}, {}),
        Field("isbn", "str", TRUE, Default(Null), {}, {}, {}),
        Field("featured", "bool", FALSE, Default(Bool(FALSE)), {}, {}, {}) >>]

Submission ==
    [name |-> SubmissionName,
     fields |-> <<
        Field("author_name", "str", FALSE, Required, {}, {}, {}),
        Field("email", "email", FALSE, Required, {}, {}, {}),
        Field("book_title", "str", FALSE, Required, {}, {}, {}),
        Field("synopsis", "str", FALSE, Required, {}, {}, {SynopsisMinLength}),
        Field("genre", "str", TRUE, Default(Null), {}, {}, {}),
        Field("word_count", "int", TRUE, Default(Null), {WordCountMin}, {}, {}),
        Field("manuscript_url", "url", TRUE, Default(Null), {}, {}, {}) >>]

\* the module's model classes, in declaration order
Schemas == <<User, Product, Author, Book, Submission>>

VARIABLES
    registry,   \* the declared model classes
    model,      \* name of the model the current candidate is for
    cand,       \* the candidate record: field name -> supplied value
    edits,      \* fields changed since the candidate was started
    result,     \* <<>> before validation, <<[ok, out]>> after it
    heap,       \* list objects: id -> [live, items]
    books,      \* kept Book instances
    enums       \* <<>> or <<first enumeration, latest enumeration>>, each with
                \* whether a kept instance had been appended to by then

vars == <<registry, model, cand, edits, result, heap, books, enums>>

Range(s) == {s[i] : i \in DOMAIN s}

SchemaOf(reg, m) == CHOOSE s \in Range(reg) : s.name = m
FieldsOf(reg, m) == SchemaOf(reg, m).fields
FieldNames(reg, m) == {f.name : f \in Range(FieldsOf(reg, m))}
FieldNamed(reg, m, n) == CHOOSE f \in Range(FieldsOf(reg, m)) : f.name = n

(* ------------------------- format validation --------------------------- *)

\* EmailStr: exactly one "@", with a non-empty local part and domain
EmailOk(s) ==
    /\ Cardinality({i \in DOMAIN s : s[i] = "@"}) = 1
    /\ \E i \in DOMAIN s : s[i] = "@" /\ 1 < i /\ i < Len(s)

\* HttpUrl: an http or https scheme followed by a host
UrlOk(s) == Len(s) >= 2 /\ s[1] \in {"http://", "https://"}

\* the bound taken as exclusive
SatisfiesGeStrict(v, b) == v > b
\* ge=b
SatisfiesGe(v, b) == v >= b

\* the bound taken as exclusive
SatisfiesLeStrict(v, b) == v < b
\* le=b
SatisfiesLe(v, b) == v <= b

\* the bound taken as exclusive
SatisfiesMinLengthStrict(s, n) == Len(s) > n
\* min_length=n
SatisfiesMinLength(s, n) == Len(s) >= n

\* type conformance and declared constraints of a supplied, non-null value
ValueOk(f, v) ==
    CASE f.type = "str" ->
            /\ v.k = "str"
            /\ \A n \in f.min_length : SatisfiesMinLength(v.v, n)
      [] f.type = "email" -> v.k = "str" /\ EmailOk(v.v)
      [] f.type = "url" -> v.k = "str" /\ UrlOk(v.v)
      [] f.type \in {"int", "float"} ->
            /\ v.k = "num"
            /\ \A b \in f.ge : SatisfiesGe(v.v, b)
            /\ \A b \in f.le : SatisfiesLe(v.v, b)
      [] f.type = "bool" -> v.k = "bool"
      [] f.type = "list_str" -> v.k = "list"
      [] OTHER -> FALSE

(* ----------------------------- list objects ---------------------------- *)

HeapIds == 1..(MaxBooks + 1)
FreeCell == [live |-> FALSE, items |-> <<>>]
EmptyHeap == [i \in HeapIds |-> FreeCell]

FreeIds(h) == {i \in HeapIds : ~h[i].live}
\* a new list object (0 when the model's heap is exhausted; Validate is guarded)
NewList(h) ==
    IF FreeIds(h) = {} THEN 0
    ELSE CHOOSE i \in FreeIds(h) : \A j \in FreeIds(h) : i <= j

\* one list object handed out as the default of every record
SharedDefaultList(h) == 1
\* default_factory=list: each call builds a new empty list
DefaultFactoryList(h) == NewList(h)

\* the heap once object r exists (a new object starts with the given items)
Alloc(h, r, items) ==
    IF h[r].live THEN h ELSE [h EXCEPT ![r] = [live |-> TRUE, items |-> items]]

\* list objects no kept instance refers to are reclaimed
Collect(h, bs) ==
    [i \in HeapIds |->
        IF \E j \in DOMAIN bs : bs[j].genres = i THEN h[i] ELSE FreeCell]

(* ------------------------------ validation ----------------------------- *)

Fail(h) == [ok |-> FALSE, val |-> Absent, heap |-> h]
Pass(v, h) == [ok |-> TRUE, val |-> v, heap |-> h]

\* an omitted required field is filled with null instead of being an error
OmittedRequiredAsNull(f, h) ==
    IF f.default.kind = "value" THEN Pass(f.default.v, h)
    ELSE IF f.default.kind = "factory"
    THEN LET r == DefaultFactoryList(h) IN Pass(Ref(r), Alloc(h, r, <<>>))
    ELSE Pass(Null, h)
\* an omitted optional field is left null, whatever default it declares
OmittedDefaultIgnored(f, h) ==
    IF f.default.kind = "required" THEN Fail(h) ELSE Pass(Null, h)
\* the value a field takes when the caller omits it
Omitted(f, h) ==
    IF f.default.kind = "required" THEN Fail(h)
    ELSE IF f.default.kind = "value" THEN Pass(f.default.v, h)
    ELSE LET r == DefaultFactoryList(h) IN Pass(Ref(r), Alloc(h, r, <<>>))

\* null is taken for every field that has a default
AcceptsNullLenient(f) == f.nullable \/ f.default.kind # "required"
\* null is refused for every field
AcceptsNullNever(f) == FALSE
\* whether an explicit null is a valid value of the field (Optional[...])
AcceptsNull(f) == f.nullable

\* a supplied value is converted to the instance's own value
Supplied(f, v, h) ==
    IF ~ValueOk(f, v) THEN Fail(h)
    ELSE IF v.k = "list"
    THEN LET r == NewList(h) IN Pass(Ref(r), Alloc(h, r, v.v))
    ELSE Pass(v, h)

ValidateField(f, v, h) ==
    IF v = Absent THEN Omitted(f, h)
    ELSE IF v = Null THEN (IF AcceptsNull(f) THEN Pass(Null, h) ELSE Fail(h))
    ELSE Supplied(f, v, h)

RECURSIVE ValidateFrom(_, _, _, _, _, _)
ValidateFrom(fields, i, c, h, out, ok) ==
    IF i > Len(fields) THEN [ok |-> ok, out |-> out, heap |-> h]
    ELSE LET f == fields[i]
             r == ValidateField(f, c[f.name], h)
         IN ValidateFrom(fields, i + 1, c, r.heap,
                         [out EXCEPT ![f.name] = r.val], ok /\ r.ok)

\* BaseModel.__init__ / model_validate: every field is checked; the instance
\* exists only if all of them pass
ModelValidate(reg, m, c, h) ==
    LET r == ValidateFrom(FieldsOf(reg, m), 1, c, h,
                          [n \in FieldNames(reg, m) |-> Absent], TRUE)
    IN IF r.ok THEN r ELSE [ok |-> FALSE, out |-> <<>>, heap |-> h]

(* --------------------------- collection names -------------------------- *)

UpperCase == <<"A", "B", "C", "D", "E", "F", "G", "H", "I", "J", "K", "L", "M",
               "N", "O", "P", "Q", "R", "S", "T", "U", "V", "W", "X", "Y", "Z">>
LowerCase == <<"a", "b", "c", "d", "e", "f", "g", "h", "i", "j", "k", "l", "m",
               "n", "o", "p", "q", "r", "s", "t", "u", "v", "w", "x", "y", "z">>

\* str.lower() on one character
LowerChar(c) ==
    IF \E i \in DOMAIN UpperCase : UpperCase[i] = c
    THEN LowerCase[CHOOSE i \in DOMAIN UpperCase : UpperCase[i] = c]
    ELSE c

ToLower(s) == [i \in DOMAIN s |-> LowerChar(s[i])]

\* the one irregular mapping the module docstring lists: BlogPost -> "blogs"
IrregularNames == {BlogPostName}
IrregularCollection(n) == <<"b", "l", "o", "g", "s">>

\* a naming rule that pluralises every collection
CollectionNamePlural(n) == Append(ToLower(n), "s")
\* "Model name is converted to lowercase for the collection name"
CollectionName(n) ==
    IF n \in IrregularNames THEN IrregularCollection(n) ELSE ToLower(n)

(* ----------------------------- enumeration ----------------------------- *)

\* the default a field declaration reports: the declared value, or what the
\* factory delivers when asked now
ReportedDefault(f, h) ==
    IF f.default.kind = "required" THEN Absent
    ELSE IF f.default.kind = "value" THEN f.default.v
    ELSE LET r == DefaultFactoryList(h)
         IN List(IF r \in HeapIds /\ h[r].live THEN h[r].items ELSE <<>>)

\* what a reader of the module obtains: every model, in order, with its
\* collection and its fields' types, requiredness, defaults and constraints
Definitions(reg, h) ==
    [i \in DOMAIN reg |->
        [name |-> reg[i].name,
         collection |-> CollectionName(reg[i].name),
         fields |-> [j \in DOMAIN reg[i].fields |->
            LET f == reg[i].fields[j]
            IN [name |-> f.name, type |-> f.type, nullable |-> f.nullable,
                required |-> (f.default.kind = "required"),
                default |-> ReportedDefault(f, h),
                ge |-> f.ge, le |-> f.le, min_length |-> f.min_length]]]]

(* ------------------------------- inputs -------------------------------- *)

Near(b) == (b - Slack)..(b + Slack)
NonNeg(S) == {n \in S : n >= 0}

GoodEmail == <<"a", "@", "b", ".", "c">>
BadEmail == <<"a", "b", ".", "c">>
GoodUrl == <<"https://", "h", ".", "c">>
BadUrl == <<"h", ".", "c">>
Genres == {"g"}

\* a value that satisfies the field's declaration
ValidSample(f) ==
    CASE f.type = "str" ->
            Str(Rep(IF f.min_length = {} THEN 1 ELSE CHOOSE n \in f.min_length : TRUE))
      [] f.type = "email" -> Str(GoodEmail)
      [] f.type = "url" -> Str(GoodUrl)
      [] f.type \in {"int", "float"} -> Num(CHOOSE b \in f.ge : TRUE)
      [] f.type = "bool" -> Bool(FALSE)
      [] f.type = "list_str" -> List(<<"g">>)

\* the values a caller may supply for the field
InputValues(f) ==
    {Absent, Null, Obj} \cup
    CASE f.type = "str" ->
            {Str(Rep(n)) : n \in IF f.min_length = {} THEN {1}
                                 ELSE NonNeg(UNION {Near(b) : b \in f.min_length})}
      [] f.type = "email" -> {Str(GoodEmail), Str(BadEmail)}
      [] f.type = "url" -> {Str(GoodUrl), Str(BadUrl)}
      [] f.type \in {"int", "float"} ->
            {Num(n) : n \in UNION {Near(b) : b \in f.ge \cup f.le}}
      [] f.type = "bool" -> {Bool(TRUE), Bool(FALSE)}
      [] f.type = "list_str" -> {List(<<>>)} \cup {List(<<g>>) : g \in Genres}

\* a record that supplies only the required fields
Minimal(reg, m) ==
    [n \in FieldNames(reg, m) |->
        LET f == FieldNamed(reg, m, n)
        IN IF f.default.kind = "required" THEN ValidSample(f) ELSE Absent]

\* a record that supplies every field
Full(reg, m) ==
    [n \in FieldNames(reg, m) |-> ValidSample(FieldNamed(reg, m, n))]

(* ------------------------------- actions ------------------------------- *)

Init ==
    /\ registry = Schemas
    /\ model = UserName
    /\ cand = Minimal(Schemas, UserName)
    /\ edits = 0
    /\ result = <<>>
    /\ heap = EmptyHeap
    /\ books = <<>>
    /\ enums = <<>>

\* a caller starts a new candidate record; an instance that was not kept is dropped
NewCandidateFor(m) ==
    \E full \in BOOLEAN :
        /\ model' = m
        /\ cand' = IF full THEN Full(registry, m) ELSE Minimal(registry, m)
        /\ edits' = 0
        /\ result' = <<>>
        /\ heap' = Collect(heap, books)
        /\ UNCHANGED <<registry, books, enums>>

NewCandidate == \E i \in DOMAIN registry : NewCandidateFor(registry[i].name)

NewBookCandidate == NewCandidateFor(BookName)

\* the caller sets, nulls or removes one field of the candidate
SetField(n) ==
    /\ result = <<>>
    /\ edits < MaxOverrides
    /\ n \in FieldNames(registry, model)
    /\ \E v \in InputValues(FieldNamed(registry, model, n)) :
        /\ v # cand[n]
        /\ cand' = [cand EXCEPT ![n] = v]
    /\ edits' = edits + 1
    /\ UNCHANGED <<registry, model, result, heap, books, enums>>

SetAnyField == \E i \in DOMAIN registry : \E n \in FieldNames(registry, registry[i].name) : SetField(n)

SetGenres == SetField("genres")

\* the candidate is validated against its model
Validate ==
    /\ result = <<>>
    /\ FreeIds(heap) # {}
    /\ LET r == ModelValidate(registry, model, cand, heap) IN
        /\ result' = <<[ok |-> r.ok, out |-> r.out]>>
        /\ heap' = r.heap
    /\ UNCHANGED <<registry, model, cand, edits, books, enums>>

\* the caller keeps the Book instance just created
Keep ==
    /\ result # <<>>
    /\ result[1].ok
    /\ model = BookName
    /\ Len(books) < MaxBooks
    /\ books' = Append(books, [genres |-> result[1].out["genres"].v,
                               omitted |-> (cand["genres"] = Absent),
                               appended |-> <<>>])
    /\ result' = <<>>
    /\ UNCHANGED <<registry, model, cand, edits, heap, enums>>

RECURSIVE Appends(_)
\* the number of genres appended so far to the instances bs
Appends(bs) == IF bs = <<>> THEN 0 ELSE Len(Head(bs).appended) + Appends(Tail(bs))

\* book.genres.append(g) on a kept instance
AppendGenre ==
    \E j \in DOMAIN books : \E g \in Genres :
        /\ Appends(books) < MaxAppends
        /\ heap' = [heap EXCEPT ![books[j].genres].items = Append(@, g)]
        /\ books' = [books EXCEPT ![j].appended = Append(@, g)]
        /\ UNCHANGED <<registry, model, cand, edits, result, enums>>

\* the model definitions are read (schema introspection)
Enumerate ==
    /\ enums' = LET d == [defs |-> Definitions(registry, heap),
                          mutated |-> \E j \in DOMAIN books : books[j].appended # <<>>]
                IN IF enums = <<>> THEN <<d, d>> ELSE <<enums[1], d>>
    /\ UNCHANGED <<registry, model, cand, edits, result, heap, books>>

\* validation of arbitrary candidates
Next == NewCandidate \/ SetAnyField \/ Validate

Spec == Init /\ [][Next]_vars

\* Book candidates that differ in genres only, Book instances that are kept and
\* mutated, and enumeration of the definitions
NextInstances ==
    NewBookCandidate \/ SetGenres \/ Validate \/ Keep \/ AppendGenre \/ Enumerate

SpecInstances == Init /\ [][NextInstances]_vars

(* ------------------- what the documentation requires ------------------- *)

Done == result # <<>>
Accepted == Done /\ result[1].ok
Rejected == Done /\ ~result[1].ok
Out == result[1].out

\* the required fields of each model, as documented
DocRequired(m) ==
    CASE m = UserName -> {"name", "email"}
      [] m = ProductName -> {"title", "price", "category"}
      [] m = AuthorName -> {"name"}
      [] m = BookName -> {"title", "author"}
      [] m = SubmissionName -> {"author_name", "email", "book_title", "synopsis"}

\* the optional fields that take a default other than null
DocDefaulted(m) ==
    CASE m = UserName -> {"is_active"}
      [] m = ProductName -> {"in_stock"}
      [] m = BookName -> {"genres", "featured"}
      [] OTHER -> {}

\* the optional fields that may be null
DocNullable(m) == (DOMAIN cand \ DocRequired(m)) \ DocDefaulted(m)

InRange(v, lo, hi) == v.k = "num" /\ lo <= v.v /\ v.v <= hi
AtLeast(v, lo) == v.k = "num" /\ lo <= v.v

\* a supplied, non-null value is one the documentation allows for the field
DocValueFine(n, v) ==
    CASE n = "email" -> v = Str(GoodEmail)
      [] n \in {"website", "avatar_url", "cover_url", "manuscript_url"} -> v = Str(GoodUrl)
      [] n = "age" -> InRange(v, 0, 120)
      [] n = "price" -> AtLeast(v, 0)
      [] n = "pages" -> AtLeast(v, 1)
      [] n = "word_count" -> AtLeast(v, 1000)
      [] n \in {"is_active", "in_stock", "featured"} -> v.k = "bool"
      [] n = "genres" -> v.k = "list"
      [] n = "synopsis" -> v.k = "str" /\ Len(v.v) >= 50
      [] OTHER -> v.k = "str"

\* field n of the candidate is omitted where it may be, null where it may be, or valid
FieldFine(n) ==
    IF cand[n] = Absent THEN n \notin DocRequired(model)
    ELSE IF cand[n] = Null THEN n \in DocNullable(model)
    ELSE DocValueFine(n, cand[n])

\* every field of the candidate outside S is fine
OthersFine(S) == \A n \in DOMAIN cand \ S : FieldFine(n)

AbsentOrNull(n) == cand[n] \in {Absent, Null}

(* -------------------------------- claims ------------------------------- *)

\* C1: a candidate that lacks a required field of its model is rejected,
\* whatever the other fields hold.
C1_MissingRequiredRejected ==
    (Done /\ \E n \in DocRequired(model) : cand[n] = Absent) => Rejected

C1_Witness ==
    /\ Rejected
    /\ model = UserName
    /\ cand["email"] = Absent
    /\ cand["name"] = Str(Rep(1))
    /\ cand["age"] = Num(0)

\* C2: a User whose other fields are valid is accepted iff age is absent, null,
\* or a number with 0 <= age <= 120.
C2_UserAge ==
    (Done /\ model = UserName /\ OthersFine({"age"}))
        => (Accepted <=> (AbsentOrNull("age") \/ InRange(cand["age"], 0, 120)))

C2_Witness ==
    /\ Accepted
    /\ model = UserName
    /\ cand["age"] = Num(120)

\* C3 as stated: a Product with title and category present is accepted iff
\* price is present and >= 0.
C3_AsStated ==
    (Done /\ model = ProductName
          /\ cand["title"].k = "str" /\ cand["category"].k = "str")
        => (Accepted <=> AtLeast(cand["price"], 0))

\* C3 (amended): a Product whose title, category, description and in_stock are
\* valid (the optional two possibly omitted) is accepted iff price is present
\* and >= 0.
C3_ProductPrice ==
    (Done /\ model = ProductName /\ OthersFine({"price"}))
        => (Accepted <=> AtLeast(cand["price"], 0))

C3_Witness ==
    /\ Accepted
    /\ model = ProductName
    /\ cand["price"] = Num(0)

\* C4 as stated: a Book with title and author present is accepted iff pages is
\* absent, null or >= 1 and price is absent, null or >= 0.
C4_AsStated ==
    (Done /\ model = BookName
          /\ cand["title"].k = "str" /\ cand["author"].k = "str")
        => (Accepted <=>
                /\ AbsentOrNull("pages") \/ AtLeast(cand["pages"], 1)
                /\ AbsentOrNull("price") \/ AtLeast(cand["price"], 0))

\* C4 (amended): a Book whose fields other than pages and price are valid (the
\* optional ones possibly omitted) is accepted iff pages is absent, null or
\* >= 1 and price is absent, null or >= 0.
C4_BookPagesPrice ==
    (Done /\ model = BookName /\ OthersFine({"pages", "price"}))
        => (Accepted <=>
                /\ AbsentOrNull("pages") \/ AtLeast(cand["pages"], 1)
                /\ AbsentOrNull("price") \/ AtLeast(cand["price"], 0))

C4_Witness ==
    /\ Accepted
    /\ model = BookName
    /\ cand["pages"] = Num(1)
    /\ cand["price"] = Num(0)

\* C5 as stated: a Submission whose author_name, email and book_title are valid
\* is accepted iff synopsis has at least 50 characters and word_count is
\* absent, null or >= 1000.
C5_AsStated ==
    (Done /\ model = SubmissionName
          /\ \A n \in {"author_name", "email", "book_title"} :
                cand[n] # Absent /\ FieldFine(n))
        => (Accepted <=>
                /\ cand["synopsis"].k = "str" /\ Len(cand["synopsis"].v) >= 50
                /\ AbsentOrNull("word_count") \/ AtLeast(cand["word_count"], 1000))

\* C5 (amended): a Submission whose author_name, email, book_title, genre and
\* manuscript_url are valid (the optional two possibly omitted or null) is
\* accepted iff synopsis has at least 50 characters and word_count is absent,
\* null or >= 1000.
C5_SubmissionSynopsisWordCount ==
    (Done /\ model = SubmissionName /\ OthersFine({"synopsis", "word_count"}))
        => (Accepted <=>
                /\ cand["synopsis"].k = "str" /\ Len(cand["synopsis"].v) >= 50
                /\ AbsentOrNull("word_count") \/ AtLeast(cand["word_count"], 1000))

C5_Witness ==
    /\ Accepted
    /\ model = SubmissionName
    /\ Len(cand["synopsis"].v) = 50
    /\ cand["word_count"] = Num(1000)

\* the value the documentation gives an omitted optional field
DocDefault(n) ==
    CASE n \in {"is_active", "in_stock"} -> Bool(TRUE)
      [] n = "featured" -> Bool(FALSE)
      [] OTHER -> Null

\* C6: a candidate that supplies exactly the required fields, all valid, is
\* accepted; the instance holds the supplied values, the documented default of
\* every optional field that has one (genres: an empty list), and null elsewhere.
C6_DefaultsSubstituted ==
    (Done /\ (\A n \in DOMAIN cand : cand[n] # Absent <=> n \in DocRequired(model))
          /\ OthersFine({}))
        => /\ Accepted
           /\ \A n \in DocRequired(model) : Out[n] = cand[n]
           /\ \A n \in DOMAIN cand \ DocRequired(model) :
                IF n = "genres"
                THEN Out[n].k = "ref" /\ heap[Out[n].v].items = <<>>
                ELSE Out[n] = DocDefault(n)

C6_Witness ==
    /\ Accepted
    /\ model = BookName
    /\ \A n \in DOMAIN cand : cand[n] # Absent <=> n \in {"title", "author"}
    /\ Out["featured"] = Bool(FALSE)
    /\ heap[Out["genres"].v].items = <<>>

\* C10: an explicit null for a defaulted, non-nullable field is rejected; an
\* explicit null for a nullable optional field of an otherwise valid record is
\* accepted and stays null.
C10_ExplicitNull ==
    /\ (Done /\ \E n \in DocDefaulted(model) : cand[n] = Null) => Rejected
    /\ \A n \in DocNullable(model) :
        (Done /\ cand[n] = Null /\ OthersFine({n})) => (Accepted /\ Out[n] = Null)

C10_Witness ==
    /\ Rejected
    /\ model = UserName
    /\ cand["is_active"] = Null
    /\ OthersFine({"is_active"})

C10_WitnessNullable ==
    /\ Accepted
    /\ model = SubmissionName
    /\ cand["word_count"] = Null

\* C7: every declared model's collection name is its identifier in lower case
\* ("user", "product", "author", "book", "submission"), and no declared model
\* falls under the irregular mapping.
C7_CollectionNames ==
    enums # <<>> =>
        LET d == enums[2].defs IN
        /\ \A i \in DOMAIN d :
            /\ d[i].collection = ToLower(d[i].name)
            /\ d[i].name \notin IrregularNames
        /\ [i \in DOMAIN d |-> d[i].collection] =
              << <<"u", "s", "e", "r">>,
                 <<"p", "r", "o", "d", "u", "c", "t">>,
                 <<"a", "u", "t", "h", "o", "r">>,
                 <<"b", "o", "o", "k">>,
                 <<"s", "u", "b", "m", "i", "s", "s", "i", "o", "n">> >>

C7_Witness ==
    /\ enums # <<>>
    /\ enums[2].defs[4].name = BookName
    /\ enums[2].defs[4].collection = <<"b", "o", "o", "k">>

\* C8: the registry never changes, and every enumeration yields the same five
\* definitions in the same order as the first one, whatever was validated,
\* kept or appended in between.
C8_EnumerateIdempotent ==
    /\ registry = Schemas
    /\ enums # <<>> =>
        /\ enums[2].defs = enums[1].defs
        /\ [i \in DOMAIN enums[2].defs |-> enums[2].defs[i].name] =
              <<UserName, ProductName, AuthorName, BookName, SubmissionName>>

C8_Witness ==
    /\ enums # <<>>
    /\ ~enums[1].mutated
    /\ enums[2].mutated
    /\ \E j \in DOMAIN books : books[j].omitted /\ books[j].appended # <<>>
    /\ Rejected

\* C9: a kept Book created without genres holds exactly the genres appended to
\* it (so appending to one instance changes no other), no two instances share
\* a list, and a Book created without genres afterwards starts with an empty list.
C9_FreshGenresDefault ==
    /\ \A j \in DOMAIN books :
        books[j].omitted => heap[books[j].genres].items = books[j].appended
    /\ \A j, k \in DOMAIN books : j # k => books[j].genres # books[k].genres
    /\ (Accepted /\ model = BookName /\ cand["genres"] = Absent) =>
        /\ heap[Out["genres"].v].items = <<>>
        /\ \A j \in DOMAIN books : books[j].genres # Out["genres"].v

C9_Witness ==
    /\ Len(books) = 2
    /\ books[1].omitted /\ books[1].appended # <<>>
    /\ books[2].omitted /\ heap[books[2].genres].items = <<>>
    /\ Accepted /\ model = BookName /\ cand["genres"] = Absent

====
